---- MODULE Spec2Model ----
(***************************************************************************)
(* Pre-Trade Sentinel (src/src/engines/pre_trade_sentinel.py): the gate's  *)
(* state, its operations check_trade / update_trade_history /              *)
(* trigger_cooldown, and the pure functions they are built from.           *)
(*                                                                         *)
(* Representation.                                                         *)
(*  - Timestamps are whole minutes since midnight of day 0.                *)
(*  - Money is whole dollars.                                              *)
(*  - A risk score is an integer number of 1/10000 (0.3 is 3000, 1.0 is    *)
(*    10000). Python computes the score in binary floating point; the      *)
(*    model computes it in exact arithmetic, and the inputs are chosen so  *)
(*    that every division is exact. A float sum that rounding puts just    *)
(*    past a threshold of the exact sum (0.2 + 0.1 is 0.30000000000000004  *)
(*    in Python) is therefore not represented.                             *)
(*  - An Optional[...] value is a record [set, val]; None is set = FALSE.  *)
(*  - A violation string is modelled by a tag naming the rule.             *)
(***************************************************************************)
EXTENDS Integers, Sequences, FiniteSets, TLC

VARIABLES
    constitution,        \* self.constitution (fixed at construction)
    trade_history,       \* self.trade_history
    last_trade_time,     \* self.last_trade_time
    consecutive_losses,  \* self.consecutive_losses
    cooldown_until,      \* self.cooldown_until
    now,                 \* datetime.now()
    call                 \* the caller's position: NoCall, or the call that just returned

gate == <<trade_history, last_trade_time, consecutive_losses, cooldown_until>>
vars == <<constitution, trade_history, last_trade_time, consecutive_losses,
          cooldown_until, now, call>>

(***************************************************************************)
(* Bounds of the model.                                                    *)
(***************************************************************************)
StartTime == 720      \* the clock starts at 12:00 of day 0
ClockStep == 720      \* the clock advances in steps of this many minutes
MaxTime == 2160       \* the clock stops here
MaxHistory == 3       \* update_trade_history is called at most this often
MaxViolations == 5    \* violation counts tried on _compute_risk_score
MaxLosses == 3        \* loss counters tried on _compute_risk_score
UseDays == 3             \* days of check-then-record use after the first
MaxGuardHistory == 11 \* history lengths tried on _check_behavioral_guards

(***************************************************************************)
(* Python values.                                                          *)
(***************************************************************************)
None == [set |-> FALSE, val |-> 0]
Some(v) == [set |-> TRUE, val |-> v]
\* Python truthiness of an Optional number: None and 0 are falsy
Truthy(o) == o.set /\ o.val # 0
\* "o or d" on an Optional number
OrElse(o, d) == IF Truthy(o) THEN o.val ELSE d
\* dict.get(key, d)
Get(o, d) == IF o.set THEN o.val ELSE d
Min(a, b) == IF a < b THEN a ELSE b
Max(a, b) == IF a > b THEN a ELSE b
Abs(a) == IF a < 0 THEN 0 - a ELSE a

\* datetime.hour and datetime.date() of a timestamp in minutes
HourOf(t) == (t \div 60) % 24
DateOf(t) == t \div 1440

(***************************************************************************)
(* UserConstitution (src/src/core/state.py). max_leverage and              *)
(* max_concentration are rationals [num, den]; allowed_symbols and         *)
(* blocked_symbols are sets, empty for None or []. The constitution is     *)
(* the caller's: the limits are those of demos/sentinel_demo.py with GME   *)
(* blocked, the interval and the cooldown are sized to the clock's step    *)
(* (an interval of exactly one step, a cooldown of one and a half), and    *)
(* the daily cap and the streak threshold are within MaxHistory.           *)
(***************************************************************************)
GateConstitution(kill_switch, cooldown) ==
    [max_position_size |-> 5000,
     max_leverage |-> [num |-> 3, den |-> 2],
     max_concentration |-> [num |-> 3, den |-> 10],
     min_time_between_trades |-> 43200,
     max_trades_per_day |-> 2,
     block_after_loss_streak |-> 2,
     require_cooldown |-> cooldown,
     cooldown_duration_minutes |-> 1080,
     allowed_symbols |-> {},
     blocked_symbols |-> {"GME"},
     trading_hours_only |-> TRUE,
     enable_kill_switch |-> kill_switch]

(***************************************************************************)
(* _check_position_limits                                                  *)
(***************************************************************************)
\* estimated_price, position_value as the position-limit check computes them
LimitsPositionValue(intent, portfolio) ==
    intent.quantity * OrElse(intent.price, Get(portfolio.current_price, 100))

\* total_value as the position-limit check reads it
LimitsTotalValue(portfolio) == Get(portfolio.total_value, 0)

\* leverage (and concentration) = position_value / total_value, computed only
\* "if total_value > 0": [set, num, den]
LimitsRatio(intent, portfolio) ==
    IF LimitsTotalValue(portfolio) > 0
    THEN [set |-> TRUE, num |-> LimitsPositionValue(intent, portfolio),
          den |-> LimitsTotalValue(portfolio)]
    ELSE [set |-> FALSE, num |-> 0, den |-> 1]

CheckPositionLimits(c, intent, portfolio) ==
    LET position_value == LimitsPositionValue(intent, portfolio)
        ratio == LimitsRatio(intent, portfolio)
    IN  (IF position_value > c.max_position_size
            THEN <<"position_size">> ELSE <<>>)
        \o (IF ratio.set /\ ratio.num * c.max_leverage.den > c.max_leverage.num * ratio.den
            THEN <<"leverage">> ELSE <<>>)
        \o (IF ratio.set
               /\ ratio.num * c.max_concentration.den > c.max_concentration.num * ratio.den
            THEN <<"concentration">> ELSE <<>>)

(***************************************************************************)
(* _check_timing_rules                                                     *)
(***************************************************************************)
\* the daily count taken over the executions with status executed only
TodayTradesExecutedOnly(history, intent) ==
    Cardinality({i \in DOMAIN history :
                    /\ history[i].status = "executed"
                    /\ DateOf(history[i].execution_timestamp) = DateOf(intent.timestamp)})

\* the daily count taken over the whole history, whatever the date
TodayTradesAllDays(history, intent) == Len(history)

TodayTrades(history, intent) ==
    Cardinality({i \in DOMAIN history :
                    DateOf(history[i].execution_timestamp) = DateOf(intent.timestamp)})

\* the minimum interval counted as not yet over at exactly the interval
CheckTimingRulesInclusive(c, intent, history, last_time) ==
    (IF last_time.set
        /\ (intent.timestamp - last_time.val) * 60 <= c.min_time_between_trades
     THEN <<"min_interval">> ELSE <<>>)
    \o (IF TodayTrades(history, intent) >= c.max_trades_per_day
        THEN <<"daily_limit">> ELSE <<>>)
    \o (IF c.trading_hours_only
           /\ ~(9 <= HourOf(intent.timestamp) /\ HourOf(intent.timestamp) < 16)
        THEN <<"trading_hours">> ELSE <<>>)

CheckTimingRules(c, intent, history, last_time) ==
    (IF last_time.set
        /\ (intent.timestamp - last_time.val) * 60 < c.min_time_between_trades
     THEN <<"min_interval">> ELSE <<>>)
    \o (IF TodayTrades(history, intent) >= c.max_trades_per_day
        THEN <<"daily_limit">> ELSE <<>>)
    \o (IF c.trading_hours_only
           /\ ~(9 <= HourOf(intent.timestamp) /\ HourOf(intent.timestamp) < 16)
        THEN <<"trading_hours">> ELSE <<>>)

(***************************************************************************)
(* _check_asset_restrictions                                               *)
(***************************************************************************)
CheckAssetRestrictions(c, intent) ==
    (IF c.allowed_symbols # {} /\ intent.symbol \notin c.allowed_symbols
     THEN <<"not_allowed">> ELSE <<>>)
    \o (IF c.blocked_symbols # {} /\ intent.symbol \in c.blocked_symbols
        THEN <<"blocked">> ELSE <<>>)

(***************************************************************************)
(* _check_behavioral_guards                                                *)
(***************************************************************************)
\* the "simplified P&L check" of the streak scan
GuardIsLoss(trade) ==
    \/ trade.intent.action = "sell"
       /\ trade.actual_fill_price.val < OrElse(trade.intent.price, 0)
    \/ trade.intent.action = "buy"
       /\ trade.actual_fill_price.val > OrElse(trade.intent.price, 0)

\* trade_history[-10:]
\* the streak scan running over the whole history
RecentTradesWholeHistory(history) == history

RecentTrades(history) ==
    IF Len(history) <= 10 THEN history
    ELSE SubSeq(history, Len(history) - 9, Len(history))

\* the loop over reversed(recent_trades), from entry i down to the oldest
RECURSIVE LossStreak(_, _)
LossStreak(recent, i) ==
    IF i = 0 THEN 0
    ELSE IF recent[i].status = "executed" /\ Truthy(recent[i].actual_fill_price)
         THEN IF GuardIsLoss(recent[i])
              THEN 1 + LossStreak(recent, i - 1)
              ELSE 0
         ELSE LossStreak(recent, i - 1)

CheckBehavioralGuards(c, history) ==
    LET recent == RecentTrades(history) IN
    IF LossStreak(recent, Len(recent)) >= c.block_after_loss_streak
    THEN <<"loss_streak">> ELSE <<>>

(***************************************************************************)
(* _check_cooldown                                                         *)
(***************************************************************************)
CheckCooldown(until, clock) ==
    IF until.set /\ clock < until.val THEN <<"cooldown">> ELSE <<>>

(***************************************************************************)
(* _compute_risk_score, in units of 1/10000                                *)
(***************************************************************************)
\* total_value, position_value as the risk score computes them
ScoreTotalValue(portfolio) == Get(portfolio.total_value, 1)
ScorePositionValue(intent) == intent.quantity * OrElse(intent.price, 100)

\* size_ratio = position_value / total_value if total_value > 0 else 0: [num, den]
SizeRatio(intent, portfolio) ==
    IF ScoreTotalValue(portfolio) > 0
    THEN [num |-> ScorePositionValue(intent), den |-> ScoreTotalValue(portfolio)]
    ELSE [num |-> 0, den |-> 1]

\* min(size_ratio, 1.0) * 0.3
SizeTerm(ratio) ==
    IF ratio.num >= ratio.den THEN 3000 ELSE (3000 * ratio.num) \div ratio.den

\* ComputeRiskScore without the cap on the loss-streak term
ComputeRiskScoreNoLossCap(intent, portfolio, n_violations, losses) ==
    LET s1 == n_violations * 2000
        s2 == s1 + SizeTerm(SizeRatio(intent, portfolio))
        s3 == IF intent.order_type = "market" THEN s2 + 1000 ELSE s2
        s4 == s3 + losses * 1500
    IN  Min(s4, 10000)

ComputeRiskScore(intent, portfolio, n_violations, losses) ==
    LET s1 == n_violations * 2000
        s2 == s1 + SizeTerm(SizeRatio(intent, portfolio))
        s3 == IF intent.order_type = "market" THEN s2 + 1000 ELSE s2
        s4 == s3 + Min(losses * 1500, 4000)
    IN  Min(s4, 10000)

(***************************************************************************)
(* The external reasoning call. A reply of the service is a failure        *)
(* (timeout, transport error, text that is not JSON) or a JSON value; a    *)
(* JSON value is [t, list, num], t naming its type ("missing": the key is  *)
(* absent), list its items (a string's characters) and num its number.     *)
(***************************************************************************)
JMissing == [t |-> "missing", list |-> <<>>, num |-> 0]
JNull == [t |-> "null", list |-> <<>>, num |-> 0]
JNum(n) == [t |-> "num", list |-> <<>>, num |-> n]
JList(l) == [t |-> "list", list |-> l, num |-> 0]

\* Python truthiness of a JSON value (of dict.get's None when missing)
JTruthy(j) ==
    \/ j.t = "num" /\ j.num # 0
    \/ j.t \in {"list", "str"} /\ j.list # <<>>

Failure(kind) ==
    [kind |-> kind, top |-> "none",
     additional_risks |-> JMissing, adjusted_risk_score |-> JMissing]
JsonObject(risks, score) ==
    [kind |-> "json", top |-> "object",
     additional_risks |-> risks, adjusted_risk_score |-> score]
JsonValue(top) ==
    [kind |-> "json", top |-> top,
     additional_risks |-> JMissing, adjusted_risk_score |-> JMissing]
NoReply == Failure("not_invoked")

\* a second request sent after a failed one
LlmAttemptsWithRetry(reply) == IF reply.kind = "json" THEN 1 ELSE 2

\* _llm_risk_assessment: the requests it sends for one assessment, a single
\* client.chat.completions.create whatever comes back
LlmAttempts(reply) == 1

\* _llm_risk_assessment: what check_trade gets back for a reply
LlmRiskAssessment(reply) ==
    IF reply.kind = "json"
    THEN [is_dict |-> reply.top = "object",
          additional_risks |-> reply.additional_risks,
          adjusted_risk_score |-> reply.adjusted_risk_score]
    ELSE [is_dict |-> TRUE,
          additional_risks |-> JList(<<>>),
          adjusted_risk_score |-> JNum(5000)]

(***************************************************************************)
(* check_trade                                                             *)
(***************************************************************************)
\* the five deterministic checks, in the order check_trade runs them
DeterministicViolations(c, intent, portfolio, history, last_time, until, clock) ==
    CheckPositionLimits(c, intent, portfolio)
    \o CheckTimingRules(c, intent, history, last_time)
    \o CheckAssetRestrictions(c, intent)
    \o CheckBehavioralGuards(c, history)
    \o CheckCooldown(until, clock)

\* Borderline with the lower boundary included
BorderlineInclusive(score) == 3000 <= score /\ score < 7000

\* "if 0.3 < risk_score < 0.7"
Borderline(score) == 3000 < score /\ score < 7000

\* Escalate with the score raised whether or not additional risks came back
EscalateAlwaysAdjusts(violated, score, llm) ==
    IF ~llm.is_dict \/ llm.adjusted_risk_score.t \notin {"missing", "num"}
    THEN [raised |-> TRUE, violated_rules |-> violated, risk_score |-> score]
    ELSE [raised |-> FALSE,
          violated_rules |-> IF JTruthy(llm.additional_risks)
                             THEN violated \o llm.additional_risks.list
                             ELSE violated,
          risk_score |-> IF llm.adjusted_risk_score.t = "num"
                         THEN Max(score, llm.adjusted_risk_score.num)
                         ELSE score]

\* the escalation block: [raised, violated_rules, risk_score] after it
Escalate(violated, score, llm) ==
    IF ~llm.is_dict
    THEN [raised |-> TRUE, violated_rules |-> violated, risk_score |-> score]
    ELSE IF ~JTruthy(llm.additional_risks)
    THEN [raised |-> FALSE, violated_rules |-> violated, risk_score |-> score]
    ELSE IF llm.additional_risks.t = "num"
    THEN [raised |-> TRUE, violated_rules |-> violated, risk_score |-> score]
    ELSE LET extended == violated \o llm.additional_risks.list
             adj == llm.adjusted_risk_score
         IN  IF adj.t = "missing"
             THEN [raised |-> FALSE, violated_rules |-> extended,
                   risk_score |-> Max(score, score)]
             ELSE IF adj.t = "num"
             THEN [raised |-> FALSE, violated_rules |-> extended,
                   risk_score |-> Max(score, adj.num)]
             ELSE [raised |-> TRUE, violated_rules |-> extended, risk_score |-> score]

\* Decide without the kill-switch rule
DecideIgnoringKillSwitch(c, violated, score) ==
    IF score > 8000
    THEN [approved |-> FALSE, recommended_action |-> "block"]
    ELSE IF score > 5000
    THEN [approved |-> TRUE, recommended_action |-> "delay"]
    ELSE [approved |-> TRUE, recommended_action |-> "allow"]

\* Decide with the block threshold included
DecideInclusive(c, violated, score) ==
    IF c.enable_kill_switch /\ violated # <<>>
    THEN [approved |-> FALSE, recommended_action |-> "block"]
    ELSE IF score >= 8000
    THEN [approved |-> FALSE, recommended_action |-> "block"]
    ELSE IF score > 5000
    THEN [approved |-> TRUE, recommended_action |-> "delay"]
    ELSE [approved |-> TRUE, recommended_action |-> "allow"]

\* "Determine final decision"
Decide(c, violated, score) ==
    IF c.enable_kill_switch /\ violated # <<>>
    THEN [approved |-> FALSE, recommended_action |-> "block"]
    ELSE IF score > 8000
    THEN [approved |-> FALSE, recommended_action |-> "block"]
    ELSE IF score > 5000
    THEN [approved |-> TRUE, recommended_action |-> "delay"]
    ELSE [approved |-> TRUE, recommended_action |-> "allow"]

\* SentinelResult's validation of risk_score: Field(ge=0, le=1)
ValidResult(score) == 0 <= score /\ score <= 10000

\* The whole call: its inputs, what it computed and what the caller gets.
CheckTradeCall(c, intent, portfolio, reply, history, last_time, losses, until, clock) ==
    LET det == DeterministicViolations(c, intent, portfolio, history, last_time,
                                       until, clock)
        det_score == ComputeRiskScore(intent, portfolio, Len(det), losses)
        invoked == Borderline(det_score)
        after == IF invoked
                 THEN Escalate(det, det_score, LlmRiskAssessment(reply))
                 ELSE [raised |-> FALSE, violated_rules |-> det, risk_score |-> det_score]
        decision == Decide(c, after.violated_rules, after.risk_score)
        raised == after.raised \/ ~ValidResult(after.risk_score)
    IN  [op |-> "check_trade",
         intent |-> intent, portfolio |-> portfolio, reply |-> reply,
         det_violations |-> det, det_score |-> det_score,
         llm_calls |-> IF invoked THEN LlmAttempts(reply) ELSE 0,
         raised |-> raised,
         approved |-> decision.approved,
         recommended_action |-> decision.recommended_action,
         violated_rules |-> after.violated_rules,
         risk_score |-> after.risk_score]

NoCall == [op |-> "none"]

(***************************************************************************)
(* trigger_cooldown and update_trade_history                               *)
(***************************************************************************)
\* cooldown_until after trigger_cooldown(duration_minutes) at time clock
CooldownAfterTrigger(c, duration_minutes, clock) ==
    Some(clock + OrElse(duration_minutes, c.cooldown_duration_minutes))

\* the execution inserted at the front of the list
HistoryAfterUpdatePrepends(history, trade) == <<trade>> \o history

\* self.trade_history.append(trade)
HistoryAfterUpdate(history, trade) == Append(history, trade)

\* the "simplified loss detection" of update_trade_history
UpdateIsLoss(trade) ==
    LET fill == trade.actual_fill_price.val
        intent_price == OrElse(trade.intent.price, fill)
    IN  100 * Abs(fill - intent_price) > 2 * intent_price

\* the counter reset by every execution that is not a loss
LossesAfterUpdateResets(losses, trade) ==
    IF trade.status = "executed" /\ Truthy(trade.actual_fill_price)
          /\ UpdateIsLoss(trade)
    THEN losses + 1 ELSE 0

LossesAfterUpdate(losses, trade) ==
    IF trade.status = "executed" /\ Truthy(trade.actual_fill_price)
    THEN IF UpdateIsLoss(trade) THEN losses + 1 ELSE 0
    ELSE losses

\* the automatic cooldown starting one loss late
CooldownAfterUpdateLate(c, until, losses, clock) ==
    IF c.require_cooldown /\ losses > 3
    THEN CooldownAfterTrigger(c, None, clock)
    ELSE until

CooldownAfterUpdate(c, until, losses, clock) ==
    IF c.require_cooldown /\ losses >= 3
    THEN CooldownAfterTrigger(c, None, clock)
    ELSE until

(***************************************************************************)
(* Inputs of the gate's operations.                                        *)
(***************************************************************************)
Intent(symbol, quantity, price, order_type, timestamp) ==
    [action |-> "buy", symbol |-> symbol, quantity |-> quantity,
     order_type |-> order_type, price |-> price, timestamp |-> timestamp]

Portfolio(total_value, current_price) ==
    [total_value |-> total_value, current_price |-> current_price]

Execution(action, price, status, fill, timestamp) ==
    [intent |-> [action |-> action, price |-> price], status |-> status,
     actual_fill_price |-> fill, execution_timestamp |-> timestamp]

GateIntents(clock) ==
    {Intent(s, q, Some(300), t, clock) :
        s \in {"GME", "MSFT"}, q \in {10, 100}, t \in {"market", "limit"}}

GatePortfolios == {Portfolio(tv, None) : tv \in {None, Some(50000)}}

GateExecutions(clock) ==
    {Execution("buy", Some(100), "executed", Some(f), clock) : f \in {100, 103}}
    \cup {Execution("buy", Some(100), "failed", None, clock)}

Replies ==
    {Failure(k) : k \in {"timeout", "error", "malformed"}}
    \cup {JsonValue("array")}
    \cup {JsonObject(r, a) :
            r \in {JMissing, JList(<<>>), JList(<<"llm_risk">>), JNum(5)},
            a \in {JMissing, JNum(2000), JNum(9000), JNum(15000), JNull}}

ScoreIntents ==
    {Intent("MSFT", q, p, t, StartTime) :
        q \in {0 - 10, 0, 10, 100},
        p \in {None, Some(0), Some(20), Some(300)},
        t \in {"market", "limit", "stop"}}

ScorePortfolios ==
    {Portfolio(tv, cp) :
        tv \in {None, Some(0), Some(1000), Some(50000)},
        cp \in {None, Some(50)}}

(***************************************************************************)
(* The gate as a state machine, used by one caller at a time.              *)
(***************************************************************************)
Init ==
    /\ constitution \in {GateConstitution(k, r) : k \in BOOLEAN, r \in BOOLEAN}
    /\ trade_history = <<>>
    /\ last_trade_time = None
    /\ consecutive_losses = 0
    /\ cooldown_until = None
    /\ now = StartTime
    /\ call = NoCall

\* check_trade recording the time of the check as the last trade
CheckTradeEffectRecordsTime ==
    /\ last_trade_time' = Some(now)
    /\ UNCHANGED <<trade_history, consecutive_losses, cooldown_until>>

\* what check_trade does to the gate's state
CheckTradeEffect == UNCHANGED gate

CheckTrade ==
    /\ call = NoCall
    /\ \E intent \in GateIntents(now), portfolio \in GatePortfolios :
         LET det == DeterministicViolations(constitution, intent, portfolio,
                        trade_history, last_trade_time, cooldown_until, now)
             score == ComputeRiskScore(intent, portfolio, Len(det), consecutive_losses)
         IN  \E reply \in (IF Borderline(score) THEN Replies ELSE {NoReply}) :
                call' = CheckTradeCall(constitution, intent, portfolio, reply,
                            trade_history, last_trade_time, consecutive_losses,
                            cooldown_until, now)
    /\ CheckTradeEffect
    /\ UNCHANGED <<constitution, now>>

\* the caller takes the result (or the exception) of the call it made
Return ==
    /\ call # NoCall
    /\ call' = NoCall
    /\ UNCHANGED <<constitution, gate, now>>

UpdateTradeHistory ==
    /\ call = NoCall
    /\ Len(trade_history) < MaxHistory
    /\ \E trade \in GateExecutions(now) :
         /\ trade_history' = HistoryAfterUpdate(trade_history, trade)
         /\ last_trade_time' = Some(trade.execution_timestamp)
         /\ consecutive_losses' = LossesAfterUpdate(consecutive_losses, trade)
         /\ cooldown_until' = CooldownAfterUpdate(constitution, cooldown_until,
                                  consecutive_losses', now)
         /\ call' = [op |-> "update_trade_history", trade |-> trade, at |-> now]
    /\ UNCHANGED <<constitution, now>>

TriggerCooldown ==
    /\ call = NoCall
    /\ \E duration_minutes \in {None, Some(0), Some(ClockStep)} :
         /\ cooldown_until' = CooldownAfterTrigger(constitution, duration_minutes, now)
         /\ call' = [op |-> "trigger_cooldown", duration_minutes |-> duration_minutes,
                     at |-> now]
    /\ UNCHANGED <<constitution, trade_history, last_trade_time, consecutive_losses,
                   now>>

Tick ==
    /\ call = NoCall
    /\ now + ClockStep <= MaxTime
    /\ now' = now + ClockStep
    /\ UNCHANGED <<constitution, gate, call>>

Next == CheckTrade \/ Return \/ UpdateTradeHistory \/ TriggerCooldown \/ Tick

Spec == Init /\ [][Next]_vars

(***************************************************************************)
(* The pure functions of the risk score, applied to inputs of their own.   *)
(***************************************************************************)
ScoreProbe ==
    /\ call = NoCall
    /\ \E intent \in ScoreIntents, portfolio \in ScorePortfolios,
          n \in 0..MaxViolations, losses \in 0..MaxLosses :
         call' = [op |-> "compute_risk_score",
                  intent |-> intent, portfolio |-> portfolio,
                  n_violations |-> n, losses |-> losses,
                  score |-> ComputeRiskScore(intent, portfolio, n, losses),
                  size_ratio |-> SizeRatio(intent, portfolio),
                  limits_ratio |-> LimitsRatio(intent, portfolio),
                  limits |-> CheckPositionLimits(constitution, intent, portfolio)]
    /\ UNCHANGED <<constitution, gate, now>>

ScoreNext == ScoreProbe \/ Return

ScoreSpec == Init /\ [][ScoreNext]_vars

(***************************************************************************)
(* run_sentinel_demo: four check_trade calls in a row on one sentinel, with *)
(* no other call on it.  call holds the position of the loop: the number   *)
(* of the next test case, or the check just made.  The four intents are    *)
(* built and checked within the same minute.                               *)
(***************************************************************************)
DemoConstitution ==
    [max_position_size |-> 5000,
     max_leverage |-> [num |-> 3, den |-> 2],
     max_concentration |-> [num |-> 3, den |-> 10],
     min_time_between_trades |-> 30,
     max_trades_per_day |-> 5,
     block_after_loss_streak |-> 2,
     require_cooldown |-> TRUE,
     cooldown_duration_minutes |-> 30,
     allowed_symbols |-> {},
     blocked_symbols |-> {},
     trading_hours_only |-> TRUE,
     enable_kill_switch |-> TRUE]

\* portfolio["current_prices"]
DemoCurrentPrice(symbol) ==
    CASE symbol = "AAPL" -> 150
      [] symbol = "TSLA" -> 200
      [] symbol = "MSFT" -> 300

\* the demo's portfolio as the checks of an intent on symbol read it
DemoPortfolio(symbol) == Portfolio(Some(50000), Some(DemoCurrentPrice(symbol)))

DemoTestCases(clock) ==
    <<Intent("MSFT", 10, Some(300), "limit", clock),
      Intent("TSLA", 100, None, "market", clock),
      Intent("AAPL", 300, None, "market", clock),
      Intent("MSFT", 5, None, "market", clock)>>

\* times of day at which the demo is run: before, in and after market hours
DemoStarts == {StartTime + h * 60 : h \in {0 - 4, 0 - 2, 0, 2, 5, 9}}

DemoAt(test_case) == [op |-> "demo", next |-> test_case]

DemoInit ==
    /\ constitution = DemoConstitution
    /\ trade_history = <<>>
    /\ last_trade_time = None
    /\ consecutive_losses = 0
    /\ cooldown_until = None
    /\ now \in DemoStarts
    /\ call = DemoAt(1)

\* result = sentinel.check_trade(trade, portfolio) for the next test case
DemoCheck ==
    /\ call.op = "demo"
    /\ call.next <= Len(DemoTestCases(now))
    /\ LET intent == DemoTestCases(now)[call.next]
           det == DeterministicViolations(constitution, intent,
                      DemoPortfolio(intent.symbol), trade_history,
                      last_trade_time, cooldown_until, now)
           det_score == ComputeRiskScore(intent, DemoPortfolio(intent.symbol),
                                         Len(det), consecutive_losses)
       IN  \E reply \in IF Borderline(det_score) THEN Replies ELSE {NoReply} :
              call' = [test_case |-> call.next]
                      @@ CheckTradeCall(constitution, intent,
                             DemoPortfolio(intent.symbol), reply, trade_history,
                             last_trade_time, consecutive_losses, cooldown_until, now)
    /\ CheckTradeEffect
    /\ UNCHANGED <<constitution, now>>

\* the loop takes the result and goes on to the next test case; a check that
\* raises ends the demo
DemoReturn ==
    /\ call.op = "check_trade"
    /\ ~call.raised
    /\ call' = DemoAt(call.test_case + 1)
    /\ UNCHANGED <<constitution, gate, now>>

DemoNext == DemoCheck \/ DemoReturn

DemoSpec == DemoInit /\ [][DemoNext]_vars

(***************************************************************************)
(* _check_behavioral_guards on its own: the gate after any sequence of up  *)
(* to MaxGuardHistory update_trade_history calls made at StartTime, each   *)
(* recording a loss, an execution without loss, or a failed order; the     *)
(* streak threshold is 9, one less than the scan's window.                 *)
(***************************************************************************)
GuardConstitution ==
    [GateConstitution(TRUE, FALSE) EXCEPT !.block_after_loss_streak = 9]

GuardExecutions ==
    {Execution("buy", Some(100), "executed", Some(103), StartTime),
     Execution("buy", Some(100), "executed", Some(100), StartTime),
     Execution("buy", Some(100), "failed", None, StartTime)}

GuardHistories ==
    UNION {[1..n -> GuardExecutions] : n \in 0..MaxGuardHistory}

\* consecutive_losses after update_trade_history on each of the first n entries
RECURSIVE LossesAfterHistory(_, _)
LossesAfterHistory(history, n) ==
    IF n = 0 THEN 0
    ELSE LossesAfterUpdate(LossesAfterHistory(history, n - 1), history[n])

GuardInit ==
    /\ constitution = GuardConstitution
    /\ trade_history \in GuardHistories
    /\ last_trade_time = IF trade_history = <<>> THEN None ELSE Some(StartTime)
    /\ consecutive_losses = LossesAfterHistory(trade_history, Len(trade_history))
    /\ cooldown_until = None
    /\ now = StartTime
    /\ call = NoCall

GuardProbe ==
    /\ call = NoCall
    /\ call' = [op |-> "check_behavioral_guards",
                violations |-> CheckBehavioralGuards(constitution, trade_history)]
    /\ UNCHANGED <<constitution, gate, now>>

GuardNext == GuardProbe \/ Return

GuardSpec == GuardInit /\ [][GuardNext]_vars

(***************************************************************************)
(* One gate used by two callers of update_trade_history and one caller of  *)
(* check_trade at once (api/main.py runs check_trade in worker threads).   *)
(* call holds the position of each caller: the next statement of its       *)
(* update_trade_history call, with `self.consecutive_losses += 1` as a     *)
(* load followed by a store, which Python does not make atomic.  With      *)
(* serialized set, the callers hold a lock around each call.               *)
(***************************************************************************)
\* update_trade_history leaving out its last statement
StatementAfterSkipsCooldown(pc, trade) ==
    CASE pc = "append" -> "set_time"
      [] pc = "set_time" -> "classify"
      [] pc = "classify" ->
            IF trade.status = "executed" /\ Truthy(trade.actual_fill_price)
            THEN IF UpdateIsLoss(trade) THEN "load" ELSE "reset"
            ELSE "done"
      [] pc \in {"store", "reset", "cooldown"} -> "done"
      [] pc = "load" -> "store"

\* the statement of update_trade_history(trade) that follows statement pc
StatementAfter(pc, trade) ==
    CASE pc = "append" -> "set_time"
      [] pc = "set_time" -> "classify"
      [] pc = "classify" ->
            IF trade.status = "executed" /\ Truthy(trade.actual_fill_price)
            THEN IF UpdateIsLoss(trade) THEN "load" ELSE "reset"
            ELSE "cooldown"
      [] pc = "load" -> "store"
      [] pc \in {"store", "reset"} -> "cooldown"
      [] pc = "cooldown" -> "done"

\* a caller is inside its update_trade_history call
InCall(thread) == thread.pc \notin {"append", "done"}

GateRecord(history, last_time, losses, until) ==
    [trade_history |-> history, last_trade_time |-> last_time,
     consecutive_losses |-> losses, cooldown_until |-> until]

\* the gate after one whole update_trade_history(trade) call at time clock
GateAfterUpdate(c, g, trade, clock) ==
    LET losses == LossesAfterUpdate(g.consecutive_losses, trade) IN
    GateRecord(HistoryAfterUpdate(g.trade_history, trade),
               Some(trade.execution_timestamp),
               losses,
               CooldownAfterUpdate(c, g.cooldown_until, losses, clock))

\* the executions the two callers record: a loss or not, one minute apart
ConcExecutions(clock) ==
    {Execution("buy", Some(100), "executed", Some(f), clock) : f \in {100, 103}}

\* the gate before the concurrent calls: k losses recorded one after another
ConcHistory(k) ==
    [i \in 1..k |-> Execution("buy", Some(100), "executed", Some(103), StartTime)]

ConcInit ==
    /\ constitution = GateConstitution(TRUE, TRUE)
    /\ \E k \in 0..2 :
          /\ trade_history = ConcHistory(k)
          /\ last_trade_time = IF k = 0 THEN None ELSE Some(StartTime)
          /\ consecutive_losses = LossesAfterHistory(ConcHistory(k), k)
    /\ cooldown_until = None
    /\ now = StartTime + 2
    /\ \E serialized \in BOOLEAN,
          e1 \in ConcExecutions(StartTime + 1), e2 \in ConcExecutions(StartTime + 2) :
          call = [op |-> "concurrent",
                  serialized |-> serialized,
                  before |-> GateRecord(trade_history, last_trade_time,
                                        consecutive_losses, cooldown_until),
                  threads |-> <<[pc |-> "append", trade |-> e1, loaded |-> 0],
                               [pc |-> "append", trade |-> e2, loaded |-> 0]>>,
                  observed |-> <<>>]

\* caller i executes the next statement of its update_trade_history call
ConcUpdate ==
    /\ call.op = "concurrent"
    /\ \E i \in 1..2 :
         LET t == call.threads[i]
             after == StatementAfter(t.pc, t.trade)
         IN  /\ t.pc # "done"
             /\ call.serialized => ~InCall(call.threads[3 - i])
             /\ trade_history' = IF t.pc = "append"
                                  THEN HistoryAfterUpdate(trade_history, t.trade)
                                  ELSE trade_history
             /\ last_trade_time' = IF t.pc = "set_time"
                                   THEN Some(t.trade.execution_timestamp)
                                   ELSE last_trade_time
             /\ consecutive_losses' = CASE t.pc = "store" -> t.loaded + 1
                                         [] t.pc = "reset" -> 0
                                         [] OTHER -> consecutive_losses
             /\ cooldown_until' = IF t.pc = "cooldown"
                                  THEN CooldownAfterUpdate(constitution, cooldown_until,
                                           consecutive_losses, now)
                                  ELSE cooldown_until
             /\ call' = [call EXCEPT
                            !.threads[i].pc = after,
                            !.threads[i].loaded =
                                IF t.pc = "load" THEN consecutive_losses ELSE t.loaded]
    /\ UNCHANGED <<constitution, now>>

\* a check_trade call reads the loss counter and the cooldown
ConcCheck ==
    /\ call.op = "concurrent"
    /\ call.observed = <<>>
    /\ call.serialized => \A i \in 1..2 : ~InCall(call.threads[i])
    /\ call' = [call EXCEPT !.observed =
                    <<[consecutive_losses |-> consecutive_losses,
                       cooldown |-> CheckCooldown(cooldown_until, now)]>>]
    /\ UNCHANGED <<constitution, gate, now>>

ConcNext == ConcUpdate \/ ConcCheck

ConcSpec == ConcInit /\ [][ConcNext]_vars

(***************************************************************************)
(* Orchestrator (src/src/core/orchestrator.py): run() sends one user input *)
(* through perceive, reason, sentinel, then act or journal, on the         *)
(* orchestrator's own sentinel.  call holds the AgentState of the run and  *)
(* the node that runs next.                                                *)
(***************************************************************************)
\* the act node entered whenever the sentinel produced a result
ShouldExecuteTradeOnAnyResult(state) ==
    IF state.sentinel_result.set THEN "execute" ELSE "block"

\* should_execute_trade
ShouldExecuteTrade(state) ==
    IF state.sentinel_result.set /\ state.sentinel_result.approved
    THEN "execute" ELSE "block"

\* TradeExecution declares sentinel_check: SentinelResult, a required field
\* that does not accept None
ValidTradeExecution(sentinel_check) == sentinel_check.set

\* _execute_trade: the TradeExecution it constructs, or the ValidationError
ExecuteTrade(intent, clock) ==
    LET sentinel_check == None
        fill == OrElse(intent.price, 100)
    IN  [raised |-> ~ValidTradeExecution(sentinel_check),
         trade |-> Execution(intent.action, intent.price, "executed", Some(fill),
                             clock)]

\* the portfolio sentinel_node builds
OrchPortfolio == Portfolio(Some(100000), Some(100))

\* the intents _parse_intent_from_nl returns
OrchIntents(clock) ==
    {Intent(sym, q, Some(300), "limit", clock) : sym \in {"GME", "MSFT"}, q \in {10, 100}}
    \cup {Intent(sym, q, None, "market", clock) : sym \in {"GME", "MSFT"}, q \in {10, 100}}

NoIntent == Intent("", 0, None, "market", 0)

\* initial_state of run()
InitialState ==
    [op |-> "workflow", node |-> "perceive",
     current_perception |-> FALSE,
     user_intent |-> [set |-> FALSE, val |-> NoIntent],
     sentinel_result |-> [set |-> FALSE, approved |-> FALSE],
     kill_switch_active |-> FALSE,
     executed_trades |-> <<>>,
     error_state |-> "",
     acted |-> FALSE]

OrchRun ==
    /\ call = NoCall
    /\ call' = InitialState
    /\ UNCHANGED <<constitution, gate, now>>

\* perceive_node: perceive() returns a PerceptionResult or raises
PerceiveNode ==
    /\ call.op = "workflow" /\ call.node = "perceive"
    /\ \E ok \in BOOLEAN :
         call' = [call EXCEPT !.node = "reason",
                              !.current_perception = ok,
                              !.error_state = IF ok THEN @ ELSE "perception"]
    /\ UNCHANGED <<constitution, gate, now>>

\* reason_node: without perception no intent; else the parsed intent, or the
\* parse raises
ReasonNode ==
    /\ call.op = "workflow" /\ call.node = "reason"
    /\ IF ~call.current_perception
       THEN call' = [call EXCEPT !.node = "sentinel", !.error_state = "no perception"]
       ELSE \/ \E intent \in OrchIntents(now) :
                 call' = [call EXCEPT !.node = "sentinel",
                                      !.user_intent = [set |-> TRUE, val |-> intent]]
            \/ call' = [call EXCEPT !.node = "sentinel", !.error_state = "reasoning"]
    /\ UNCHANGED <<constitution, gate, now>>

\* sentinel_node followed by the conditional edge should_execute_trade
SentinelNode ==
    /\ call.op = "workflow" /\ call.node = "sentinel"
    /\ IF ~call.user_intent.set
       THEN call' = [call EXCEPT !.node =
                        IF ShouldExecuteTrade(call) = "execute" THEN "act" ELSE "journal"]
       ELSE LET intent == call.user_intent.val
                det == DeterministicViolations(constitution, intent, OrchPortfolio,
                           trade_history, last_trade_time, cooldown_until, now)
                score == ComputeRiskScore(intent, OrchPortfolio, Len(det),
                                          consecutive_losses)
            IN  \E reply \in (IF Borderline(score) THEN Replies ELSE {NoReply}) :
                  LET check == CheckTradeCall(constitution, intent, OrchPortfolio,
                                   reply, trade_history, last_trade_time,
                                   consecutive_losses, cooldown_until, now)
                      state == IF check.raised
                               THEN [call EXCEPT !.error_state = "sentinel",
                                                 !.kill_switch_active = TRUE]
                               ELSE [call EXCEPT
                                       !.sentinel_result =
                                           [set |-> TRUE, approved |-> check.approved],
                                       !.kill_switch_active = ~check.approved]
                  IN  call' = [state EXCEPT !.node =
                                  IF ShouldExecuteTrade(state) = "execute"
                                  THEN "act" ELSE "journal"]
    /\ CheckTradeEffect
    /\ UNCHANGED <<constitution, now>>

\* act_node: _execute_trade, executed_trades.append, update_trade_history,
\* inside one try
ActNode ==
    /\ call.op = "workflow" /\ call.node = "act"
    /\ IF ~call.user_intent.set \/ ~call.current_perception
       THEN /\ call' = [call EXCEPT !.node = "journal", !.acted = TRUE]
            /\ UNCHANGED gate
       ELSE LET exe == ExecuteTrade(call.user_intent.val, now)
                after == GateAfterUpdate(constitution,
                            GateRecord(trade_history, last_trade_time,
                                       consecutive_losses, cooldown_until),
                            exe.trade, now)
            IN  IF exe.raised
                THEN /\ call' = [call EXCEPT !.node = "journal", !.acted = TRUE,
                                             !.error_state = "execution"]
                     /\ UNCHANGED gate
                ELSE /\ call' = [call EXCEPT !.node = "journal", !.acted = TRUE,
                                             !.executed_trades = Append(@, exe.trade)]
                     /\ trade_history' = after.trade_history
                     /\ last_trade_time' = after.last_trade_time
                     /\ consecutive_losses' = after.consecutive_losses
                     /\ cooldown_until' = after.cooldown_until
    /\ UNCHANGED <<constitution, now>>

\* journal_node reads executed_trades; it does not touch the sentinel
JournalNode ==
    /\ call.op = "workflow" /\ call.node = "journal"
    /\ call' = [call EXCEPT !.node = "end"]
    /\ UNCHANGED <<constitution, gate, now>>

\* run() returns the final state
OrchReturn ==
    /\ call.op = "workflow" /\ call.node = "end"
    /\ call' = NoCall
    /\ UNCHANGED <<constitution, gate, now>>

OrchNext ==
    \/ OrchRun \/ PerceiveNode \/ ReasonNode \/ SentinelNode \/ ActNode
    \/ JournalNode \/ OrchReturn \/ Tick

OrchSpec == Init /\ [][OrchNext]_vars

(***************************************************************************)
(* Check-then-record use of one gate, as act_node does after an approved   *)
(* sentinel result and as the spec's recordOutcome asks of the caller: an  *)
(* execution is recorded only for the intent of an approved check, with    *)
(* the fill the broker reported.  One day passes between visits.           *)
(***************************************************************************)
UseIntents(clock) ==
    {[Intent("MSFT", 10, p, "market", clock) EXCEPT !.action = a] :
        a \in {"buy", "sell"}, p \in {None, Some(300)}}

\* the executions a broker can report for an intent
UseExecutions(intent, clock) ==
    {Execution(intent.action, intent.price, "executed", Some(f), clock) :
        f \in {291, 309}}

\* replies of the external service: a failure, no additional risk, one
\* additional risk with a high adjusted score
UseReplies ==
    {Failure("timeout"), JsonObject(JList(<<>>), JNum(9000)),
     JsonObject(JList(<<"llm_risk">>), JNum(9000))}

\* a new sentinel with the kill switch and the automatic cooldown enabled
UseInit ==
    /\ constitution = GateConstitution(TRUE, TRUE)
    /\ trade_history = <<>>
    /\ last_trade_time = None
    /\ consecutive_losses = 0
    /\ cooldown_until = None
    /\ now = StartTime
    /\ call = NoCall

UseCheck ==
    /\ call = NoCall
    /\ \E intent \in UseIntents(now), portfolio \in GatePortfolios :
         LET det == DeterministicViolations(constitution, intent, portfolio,
                        trade_history, last_trade_time, cooldown_until, now)
             score == ComputeRiskScore(intent, portfolio, Len(det), consecutive_losses)
         IN  \E reply \in (IF Borderline(score) THEN UseReplies ELSE {NoReply}) :
                call' = CheckTradeCall(constitution, intent, portfolio, reply,
                            trade_history, last_trade_time, consecutive_losses,
                            cooldown_until, now)
    /\ CheckTradeEffect
    /\ UNCHANGED <<constitution, now>>

\* update_trade_history(execution) after the approved check returned
UseRecord ==
    /\ call.op = "check_trade" /\ ~call.raised /\ call.approved
    /\ Len(trade_history) < MaxHistory
    /\ \E trade \in UseExecutions(call.intent, now) :
         LET after == GateAfterUpdate(constitution,
                          GateRecord(trade_history, last_trade_time,
                                     consecutive_losses, cooldown_until),
                          trade, now)
         IN  /\ trade_history' = after.trade_history
             /\ last_trade_time' = after.last_trade_time
             /\ consecutive_losses' = after.consecutive_losses
             /\ cooldown_until' = after.cooldown_until
             /\ call' = [op |-> "update_trade_history", trade |-> trade, at |-> now]
    /\ UNCHANGED <<constitution, now>>

UseTick ==
    /\ call = NoCall
    /\ DateOf(now) < UseDays
    /\ now' = now + 1440
    /\ UNCHANGED <<constitution, gate, call>>

UseNext == UseCheck \/ UseRecord \/ Return \/ UseTick

UseSpec == UseInit /\ [][UseNext]_vars

(***************************************************************************)
(* Claims                                                                  *)
(***************************************************************************)
Checked == call.op = "check_trade"
Returned == Checked /\ ~call.raised
Escalated == Checked /\ call.llm_calls = 1
Scored == call.op = "compute_risk_score"

\* C1: with enable_kill_switch on, a check_trade that returns with a non-empty
\* final violation list (deterministic violations plus those the escalation
\* added) returns approved = false and recommended_action = block, whatever
\* the risk score is.
C1_KillSwitchBlocks ==
    (Returned /\ constitution.enable_kill_switch /\ call.violated_rules # <<>>)
        => (~call.approved /\ call.recommended_action = "block")

\* a blocked check whose only violation came from the escalation, at a low score
C1_Witness ==
    /\ Returned /\ constitution.enable_kill_switch
    /\ call.det_violations = <<>> /\ call.violated_rules # <<>>
    /\ call.risk_score <= 5000
    /\ ~call.approved

\* C2: check_trade leaves trade_history, last_trade_time, consecutive_losses
\* and cooldown_until as they were, whether the call approves, blocks,
\* escalates, or escalates and fails.
C2_CheckLeavesGateUnchanged ==
    [][(call = NoCall /\ call'.op = "check_trade") => UNCHANGED gate]_vars

\* a check with a failed escalation on a gate that holds a recorded loss
C2_Witness ==
    /\ Escalated /\ call.reply.kind = "timeout"
    /\ trade_history # <<>> /\ consecutive_losses > 0 /\ last_trade_time.set

\* C3: check_trade invokes the external call only when the deterministic score
\* s satisfies 0.3 < s < 0.7; with s <= 0.3 or s >= 0.7 it is never invoked.
C3_EscalationOnlyInBand ==
    Checked =>
        /\ call.llm_calls > 0 => (3000 < call.det_score /\ call.det_score < 7000)
        /\ (call.det_score <= 3000 \/ call.det_score >= 7000) => call.llm_calls = 0

\* a check whose deterministic score is exactly 0.3, without the external call
C3_Witness == Checked /\ call.det_score = 3000 /\ call.llm_calls = 0

\* C4: if the external call times out, raises, or returns text that is not
\* JSON, check_trade raises nothing and returns the deterministic score and
\* exactly the deterministic violations.
C4_FailedEscalationKeepsDeterministic ==
    (Escalated /\ call.reply.kind \in {"timeout", "error", "malformed"})
        => /\ ~call.raised
           /\ call.risk_score = call.det_score
           /\ call.violated_rules = call.det_violations

\* a failed escalation at a deterministic score below the fallback's 0.5
C4_Witness ==
    /\ Escalated /\ call.reply.kind = "malformed"
    /\ call.det_score < 5000 /\ ~call.raised

\* C5: for every reply that parses as JSON (fields missing, adjusted score
\* outside [0,1] or not a number, additional_risks not a list, a JSON value
\* that is no object) check_trade returns a result with risk_score in [0,1]
\* and raises nothing.
C5_JsonReplyAlwaysReturns ==
    (Escalated /\ call.reply.kind = "json")
        => (~call.raised /\ 0 <= call.risk_score /\ call.risk_score <= 10000)

\* C6: when the external call succeeds, violated_rules are the deterministic
\* violations followed by the reply's additional risks, risk_score is
\* max(deterministic score, adjusted_risk_score) for every reply that carries
\* an adjusted score, and risk_score is never below the deterministic score.
C6_SuccessfulEscalationTakesMax ==
    (Escalated /\ Returned /\ call.reply.kind = "json")
        => /\ call.violated_rules
                = call.det_violations \o call.reply.additional_risks.list
           /\ call.reply.adjusted_risk_score.t = "num"
                => call.risk_score
                     = Max(call.det_score, call.reply.adjusted_risk_score.num)
           /\ call.risk_score >= call.det_score

\* C7: when the kill-switch rule does not apply (kill switch off, or no
\* violation), the final score alone decides: above 0.8 block and not
\* approved, else above 0.5 delay and approved, else allow and approved; and
\* in every result approved is false exactly when the action is block.
C7_ScoreDecides ==
    Returned =>
        /\ ~(constitution.enable_kill_switch /\ call.violated_rules # <<>>)
             => IF call.risk_score > 8000
                THEN ~call.approved /\ call.recommended_action = "block"
                ELSE IF call.risk_score > 5000
                THEN call.approved /\ call.recommended_action = "delay"
                ELSE call.approved /\ call.recommended_action = "allow"
        /\ ~call.approved <=> call.recommended_action = "block"

\* kill switch off, violations present, a score of exactly 0.8: delay
C7_Witness ==
    /\ Returned /\ ~constitution.enable_kill_switch
    /\ call.violated_rules # <<>>
    /\ call.risk_score = 8000 /\ call.recommended_action = "delay"

\* C8: the score of _compute_risk_score is within [0,1] for every quantity,
\* price, portfolio, violation count and loss counter the types accept.
C8_ScoreInUnitInterval ==
    Scored => (0 <= call.score /\ call.score <= 10000)

\* C9: _compute_risk_score returns
\* min(1, 0.2 V + 0.3 min(size_ratio, 1) + 0.1 [market] + min(0.15 L, 0.4)),
\* and so does not decrease when V grows by one. (Stated multiplied through
\* by size_ratio's denominator, which is positive.)
C9_ScoreFormula ==
    Scored =>
        LET r == call.size_ratio
            rest == 2000 * call.n_violations
                    + (IF call.intent.order_type = "market" THEN 1000 ELSE 0)
                    + Min(1500 * call.losses, 4000)
        IN  /\ r.den > 0
            /\ call.score * r.den
                 = Min(10000 * r.den, rest * r.den + 3000 * Min(r.num, r.den))
            /\ ComputeRiskScore(call.intent, call.portfolio,
                                call.n_violations + 1, call.losses) >= call.score

\* all four terms at work below the clamp: a violation, a size ratio strictly
\* between 0 and 1, a market order and a capped loss term
C9_Witness ==
    /\ Scored /\ call.n_violations = 1 /\ call.losses = 3
    /\ call.intent.order_type = "market"
    /\ 0 < call.size_ratio.num /\ call.size_ratio.num < call.size_ratio.den
    /\ call.score < 10000

\* C10: the size_ratio of the risk score equals the ratio of the
\* position-limit check (same position value over the same total_value), and
\* is 0 whenever that check skips leverage and concentration.
C10_SameSizeRatio ==
    Scored =>
        IF call.limits_ratio.set
        THEN call.size_ratio.num * call.limits_ratio.den
               = call.limits_ratio.num * call.size_ratio.den
        ELSE call.size_ratio.num = 0
Updated == call.op = "update_trade_history"
Triggered == call.op = "trigger_cooldown"

\* an execution that update_trade_history classifies as a loss
ClassifiedLoss(trade) ==
    /\ trade.status = "executed" /\ Truthy(trade.actual_fill_price)
    /\ 100 * Abs(trade.actual_fill_price.val
                 - OrElse(trade.intent.price, trade.actual_fill_price.val))
           > 2 * OrElse(trade.intent.price, trade.actual_fill_price.val)

\* the last three recorded executions are all classified as losses
ThreeLossesInARow(history) ==
    /\ Len(history) >= 3
    /\ \A i \in (Len(history) - 2)..Len(history) : ClassifiedLoss(history[i])

\* C11: with require_cooldown on, the update_trade_history call that records
\* the third loss in a row sets cooldown_until to the time of that call plus
\* cooldown_duration_minutes; and a check_trade made while cooldown_until lies
\* ahead reports the cooldown violation and, with the kill switch on, every
\* result it returns has approved = false and lists that violation.
C11_LossStreakCooldown ==
    [][/\ (call = NoCall /\ call'.op = "update_trade_history"
            /\ constitution.require_cooldown /\ ThreeLossesInARow(trade_history'))
           => cooldown_until' = Some(now + constitution.cooldown_duration_minutes)
       /\ (call = NoCall /\ call'.op = "check_trade"
            /\ cooldown_until.set /\ now < cooldown_until.val)
           => /\ \E i \in DOMAIN call'.det_violations :
                    call'.det_violations[i] = "cooldown"
              /\ (constitution.enable_kill_switch /\ ~call'.raised)
                    => /\ ~call'.approved
                       /\ \E i \in DOMAIN call'.violated_rules :
                              call'.violated_rules[i] = "cooldown"]_vars

\* a check one clock step after the third loss in a row, inside the window the
\* third update opened, blocked with the cooldown violation
C11_Witness ==
    /\ Returned /\ constitution.enable_kill_switch /\ constitution.require_cooldown
    /\ ThreeLossesInARow(trade_history)
    /\ cooldown_until = Some(trade_history[3].execution_timestamp
                              + constitution.cooldown_duration_minutes)
    /\ trade_history[3].execution_timestamp < now /\ now < cooldown_until.val
    /\ ~call.approved
    /\ \E i \in DOMAIN call.violated_rules : call.violated_rules[i] = "cooldown"

\* C12 as claimed: every update_trade_history(execution) appends the execution
\* to trade_history, sets last_trade_time to its execution timestamp, and sets
\* consecutive_losses to one more than before when the fill is classified as a
\* loss and to zero for every other recorded execution.
C12_ResetOnEveryOtherExecution ==
    [][(call = NoCall /\ call'.op = "update_trade_history")
        => /\ trade_history' = Append(trade_history, call'.trade)
           /\ last_trade_time' = Some(call'.trade.execution_timestamp)
           /\ consecutive_losses' = IF ClassifiedLoss(call'.trade)
                                     THEN consecutive_losses + 1 ELSE 0]_vars

\* C12 amended: every update_trade_history(execution) appends the execution,
\* sets last_trade_time to its execution timestamp, and for an execution with
\* status "executed" and a fill price sets consecutive_losses to one more than
\* before when the fill deviates from the intended price by more than 2% and to
\* zero otherwise; an execution with another status or without a fill price
\* leaves consecutive_losses as it was.
C12_UpdateRecomputesLosses ==
    [][(call = NoCall /\ call'.op = "update_trade_history")
        => /\ trade_history' = Append(trade_history, call'.trade)
           /\ last_trade_time' = Some(call'.trade.execution_timestamp)
           /\ consecutive_losses' =
                 IF call'.trade.status = "executed"
                       /\ Truthy(call'.trade.actual_fill_price)
                 THEN IF ClassifiedLoss(call'.trade)
                      THEN consecutive_losses + 1 ELSE 0
                 ELSE consecutive_losses]_vars

\* a failed execution recorded after a loss: the counter keeps the loss
C12_Witness ==
    /\ Updated /\ call.trade.status = "failed"
    /\ trade_history[Len(trade_history)] = call.trade
    /\ last_trade_time = Some(call.trade.execution_timestamp)
    /\ Len(trade_history) >= 2
    /\ ClassifiedLoss(trade_history[Len(trade_history) - 1])
    /\ consecutive_losses >= 1

\* C13: with the kill switch on, every check_trade of an intent whose symbol
\* is in blocked_symbols returns a result with approved = false whose
\* violated_rules name the symbol as blocked, whatever the quantity, price,
\* portfolio, timestamp, gate history and reply of the external service.
C13_BlockedSymbolRejected ==
    (Checked /\ constitution.enable_kill_switch
        /\ call.intent.symbol \in constitution.blocked_symbols)
        => /\ ~call.raised
           /\ ~call.approved
           /\ \E i \in DOMAIN call.violated_rules : call.violated_rules[i] = "blocked"

\* C14: for an intent that carries a price, the position-limit check reports
\* the position-size violation exactly when quantity x price exceeds
\* max_position_size: present when it exceeds, absent when it is at most
\* max_position_size.
C14_PositionSizeViolation ==
    (Scored /\ call.intent.price.set)
        => ((\E i \in DOMAIN call.limits : call.limits[i] = "position_size")
            <=> call.intent.quantity * call.intent.price.val
                    > constitution.max_position_size)

\* the preconditions C15 names, for the check recorded in call: position value,
\* leverage and concentration within their ceilings, an hour inside trading
\* hours, a symbol that is not blocked, no active cooldown, a history without
\* a loss (by either classification of the gate)
WithinCeilings ==
    LET value == LimitsPositionValue(call.intent, call.portfolio)
        total == LimitsTotalValue(call.portfolio)
    IN  /\ value <= constitution.max_position_size
        /\ total > 0 =>
              /\ value * constitution.max_leverage.den
                    <= constitution.max_leverage.num * total
              /\ value * constitution.max_concentration.den
                    <= constitution.max_concentration.num * total

NoLossInHistory ==
    \A i \in DOMAIN trade_history :
        (trade_history[i].status = "executed"
            /\ Truthy(trade_history[i].actual_fill_price))
        => (~ClassifiedLoss(trade_history[i]) /\ ~GuardIsLoss(trade_history[i]))

CleanTrade ==
    /\ Checked
    /\ WithinCeilings
    /\ 9 <= HourOf(call.intent.timestamp) /\ HourOf(call.intent.timestamp) < 16
    /\ call.intent.symbol \notin constitution.blocked_symbols
    /\ ~(cooldown_until.set /\ now < cooldown_until.val)
    /\ NoLossInHistory

\* C15 as claimed: a trade with position value, leverage and concentration
\* within their ceilings, an hour inside trading hours, a symbol that is not
\* blocked, no active cooldown and a history without a loss gets zero
\* violations from each of the five checks.
C15_CleanTradeNoViolation == CleanTrade => call.det_violations = <<>>

\* C15 amended: such a trade gets zero violations from each of the five checks
\* provided also that no trade was recorded yet or at least
\* min_time_between_trades seconds lie between last_trade_time and the
\* intent's timestamp, that fewer than max_trades_per_day recorded executions
\* carry the intent's date, that the symbol is in allowed_symbols when an
\* allow-list is configured, and that block_after_loss_streak is at least 1.
C15_CleanTimedTradeNoViolation ==
    (/\ CleanTrade
     /\ last_trade_time.set
          => (call.intent.timestamp - last_trade_time.val) * 60
                >= constitution.min_time_between_trades
     /\ Cardinality({i \in DOMAIN trade_history :
            trade_history[i].execution_timestamp \div 1440
                = call.intent.timestamp \div 1440}) < constitution.max_trades_per_day
     /\ constitution.allowed_symbols # {}
          => call.intent.symbol \in constitution.allowed_symbols
     /\ constitution.block_after_loss_streak >= 1)
        => call.det_violations = <<>>

\* a clean trade checked the day after two executions without a loss
C15_Witness ==
    /\ CleanTrade /\ Returned
    /\ Len(trade_history) >= 2 /\ last_trade_time.set
    /\ \A i \in DOMAIN trade_history :
          trade_history[i].execution_timestamp \div 1440
              < call.intent.timestamp \div 1440
    /\ call.det_violations = <<>>
    /\ call.approved

\* C16: with max_position_size 5000, the kill switch on and GME blocked, a buy
\* of 10 MSFT at 300 checked in market hours on a gate with empty history is
\* approved with recommended_action = allow and risk_score <= 0.5, for every
\* portfolio and order type under which the five checks report no violation
\* and for every reply of the external service (stated of the results that
\* check_trade returns).
C16_NormalTradeApproved ==
    (/\ Returned /\ constitution.enable_kill_switch
     /\ constitution.max_position_size = 5000
     /\ constitution.blocked_symbols = {"GME"}
     /\ call.intent.action = "buy" /\ call.intent.symbol = "MSFT"
     /\ call.intent.quantity = 10 /\ call.intent.price = Some(300)
     /\ 9 <= HourOf(call.intent.timestamp) /\ HourOf(call.intent.timestamp) < 16
     /\ trade_history = <<>>
     /\ call.det_violations = <<>>)
        => /\ call.approved /\ call.recommended_action = "allow"
           /\ call.risk_score <= 5000

\* C17: trade_history is append-only: a check_trade or trigger_cooldown step
\* leaves it unchanged, an update_trade_history step makes it one entry longer
\* with the recorded execution last, and every step keeps each earlier entry
\* at its position.
C17_HistoryAppendOnly ==
    [][/\ (call = NoCall /\ call'.op \in {"check_trade", "trigger_cooldown"})
           => trade_history' = trade_history
       /\ (call = NoCall /\ call'.op = "update_trade_history")
           => /\ Len(trade_history') = Len(trade_history) + 1
              /\ trade_history'[Len(trade_history')] = call'.trade
       /\ Len(trade_history') >= Len(trade_history)
       /\ \A i \in DOMAIN trade_history : trade_history'[i] = trade_history[i]]_vars

\* an update recorded after a different execution, the older one still first
C17_Witness ==
    /\ Updated /\ Len(trade_history) >= 2
    /\ trade_history[Len(trade_history)] = call.trade
    /\ trade_history[1] # call.trade

\* C18: trigger_cooldown sets cooldown_until to the current time plus the
\* duration the caller supplies, whatever that duration is, or plus
\* cooldown_duration_minutes when none is supplied, whatever the loss counter
\* is, and leaves trade_history, last_trade_time and consecutive_losses as
\* they were.
C18_TriggerSetsCooldown ==
    [][(call = NoCall /\ call'.op = "trigger_cooldown")
        => /\ cooldown_until' =
                 Some(now + (IF call'.duration_minutes.set
                             THEN call'.duration_minutes.val
                             ELSE constitution.cooldown_duration_minutes))
           /\ UNCHANGED <<trade_history, last_trade_time, consecutive_losses>>]_vars

C20_DemoBlocksTooSoon ==
    (Checked /\ call.test_case = 4)
        => /\ \E i \in DOMAIN call.det_violations :
                 call.det_violations[i] = "min_interval"
           /\ ~call.raised => ~call.approved

\* the check recorded in call reports the named deterministic violation
Reports(rule) == \E i \in DOMAIN call.det_violations : call.det_violations[i] = rule

\* C21: on a gate whose last recorded execution is e, a check_trade reports the
\* minimum-interval violation exactly when its intent's timestamp is less than
\* min_time_between_trades seconds after e's execution timestamp (not at or
\* beyond the interval); on a gate with no recorded trade it never reports it.
C21_MinimumInterval ==
    Checked =>
        IF trade_history = <<>>
        THEN ~Reports("min_interval")
        ELSE Reports("min_interval")
             <=> (call.intent.timestamp
                    - trade_history[Len(trade_history)].execution_timestamp) * 60
                  < constitution.min_time_between_trades

\* a check made exactly min_time_between_trades seconds after the last
\* recorded execution, without the minimum-interval violation
C21_Witness ==
    /\ Checked /\ trade_history # <<>>
    /\ (call.intent.timestamp
          - trade_history[Len(trade_history)].execution_timestamp) * 60
        = constitution.min_time_between_trades
    /\ ~Reports("min_interval")

\* the recorded executions whose execution date is the date of the checked intent
RecordedOnIntentDate ==
    {i \in DOMAIN trade_history :
        trade_history[i].execution_timestamp \div 1440
            = call.intent.timestamp \div 1440}

\* C22: with k recorded executions dated D, a check_trade whose intent is dated
\* D reports the daily-limit violation exactly when k >= max_trades_per_day;
\* executions recorded for other dates are not counted.
C22_DailyLimit ==
    Checked =>
        (Reports("daily_limit")
            <=> Cardinality(RecordedOnIntentDate) >= constitution.max_trades_per_day)

\* a check on the second day that passes the daily cap: the cap's worth of
\* executions is recorded for the first day, fewer for the second
C22_Witness ==
    /\ Checked
    /\ Len(trade_history) > constitution.max_trades_per_day
    /\ Cardinality(RecordedOnIntentDate) >= 1
    /\ Cardinality(RecordedOnIntentDate) < constitution.max_trades_per_day
    /\ Cardinality(DOMAIN trade_history \ RecordedOnIntentDate)
          >= constitution.max_trades_per_day
    /\ ~Reports("daily_limit")

Guarded == call.op = "check_behavioral_guards"

\* an entry the streak scan counts as a loss
LosingEntry(trade) ==
    /\ trade.status = "executed" /\ Truthy(trade.actual_fill_price)
    /\ \/ trade.intent.action = "sell"
          /\ trade.actual_fill_price.val < OrElse(trade.intent.price, 0)
       \/ trade.intent.action = "buy"
          /\ trade.actual_fill_price.val > OrElse(trade.intent.price, 0)

\* the indices of the last 10 history entries
LastTen == {i \in DOMAIN trade_history : i > Len(trade_history) - 10}

\* the length of the run of losing entries at the newest end of the last 10,
\* ended by the first entry that is not a loss
RunEndedByFirstNonLoss ==
    LET breaks == {i \in LastTen : ~LosingEntry(trade_history[i])}
    IN  Cardinality({i \in LastTen : \A j \in breaks : j < i})

\* the same run when only an executed entry with a fill price that is not a
\* loss ends it, entries without execution or fill being passed over
RunEndedByFirstExecutedNonLoss ==
    LET breaks == {i \in LastTen :
                      /\ trade_history[i].status = "executed"
                      /\ Truthy(trade_history[i].actual_fill_price)
                      /\ ~LosingEntry(trade_history[i])}
    IN  Cardinality({i \in LastTen :
                        /\ LosingEntry(trade_history[i])
                        /\ \A j \in breaks : j < i})

\* C23 as claimed: _check_behavioral_guards reports a violation exactly when
\* the run of losing executions at the newest end of the last 10 history
\* entries, scanned from newest to oldest and ended by the first entry that
\* is not a loss, has length >= block_after_loss_streak.
C23_StreakEndedByAnyNonLoss ==
    Guarded =>
        (call.violations # <<>>
            <=> RunEndedByFirstNonLoss >= constitution.block_after_loss_streak)

\* C23 amended: it reports a violation exactly when the number of losing
\* executions among the last 10 history entries that are newer than the
\* newest executed entry with a fill price that is not a loss is
\* >= block_after_loss_streak; entries whose status is not executed or that
\* have no fill price neither count nor end the run.
C23_StreakSkipsUnexecuted ==
    Guarded =>
        (call.violations # <<>>
            <=> RunEndedByFirstExecutedNonLoss >= constitution.block_after_loss_streak)

\* a violation reported for a run of losses with a failed order inside it
C23_Witness ==
    /\ Guarded /\ call.violations # <<>>
    /\ RunEndedByFirstNonLoss < constitution.block_after_loss_streak
    /\ RunEndedByFirstExecutedNonLoss >= constitution.block_after_loss_streak

Concurrent == call.op = "concurrent"
BothDone == Concurrent /\ \A i \in 1..2 : call.threads[i].pc = "done"
GateNow == GateRecord(trade_history, last_trade_time, consecutive_losses,
                      cooldown_until)

\* the gate after the two calls made one after the other, in either order
SerialOutcomes ==
    LET e1 == call.threads[1].trade
        e2 == call.threads[2].trade
    IN  {GateAfterUpdate(constitution,
             GateAfterUpdate(constitution, call.before, e1, now), e2, now),
         GateAfterUpdate(constitution,
             GateAfterUpdate(constitution, call.before, e2, now), e1, now)}

\* C24: access to one gate must be serialized by the caller.  With it, two
\* update_trade_history calls leave the gate in a state that one of their two
\* serial orders produces, and a check_trade never reads consecutive_losses
\* >= 3 with require_cooldown on and no cooldown in force; without it, other
\* states are reached (C24_Witness).
C24_SerializedAccessIsConsistent ==
    (Concurrent /\ call.serialized)
        => /\ BothDone => GateNow \in SerialOutcomes
           /\ \A i \in DOMAIN call.observed :
                 (constitution.require_cooldown
                     /\ call.observed[i].consecutive_losses >= 3)
                 => call.observed[i].cooldown # <<>>

\* without serialization: both calls are over, the gate is in a state that
\* neither serial order produces, and last_trade_time is not the execution
\* timestamp of the last history entry
C24_Witness ==
    /\ BothDone /\ ~call.serialized
    /\ GateNow \notin SerialOutcomes
    /\ last_trade_time
         # Some(trade_history[Len(trade_history)].execution_timestamp)

\* without serialization: an increment of consecutive_losses is lost
C24_LostIncrement ==
    /\ BothDone /\ ~call.serialized
    /\ \A i \in 1..2 : UpdateIsLoss(call.threads[i].trade)
    /\ consecutive_losses = call.before.consecutive_losses + 1

\* without serialization: a check reads three losses and no cooldown
C24_CheckSeesStreakWithoutCooldown ==
    /\ Concurrent /\ ~call.serialized /\ constitution.require_cooldown
    /\ \E i \in DOMAIN call.observed :
          /\ call.observed[i].consecutive_losses >= 3
          /\ call.observed[i].cooldown = <<>>

\* ---- orchestrator workflow ----
InWorkflow == call.op = "workflow"
SentinelApproved == call.sentinel_result.set /\ call.sentinel_result.approved
SentinelRaised == call.error_state = "sentinel"
PastSentinel == InWorkflow /\ call.node \in {"act", "journal", "end"}

\* C25: the act node runs only after the sentinel node of the same run
\* produced an approved result; when the sentinel blocked, produced no result
\* or raised (kill_switch_active is then set), the run goes from sentinel to
\* journal, the act node is never entered and nothing is executed.
C25_ActOnlyAfterApproval ==
    InWorkflow =>
        /\ (call.node = "act" \/ call.acted) => SentinelApproved
        /\ (PastSentinel /\ ~SentinelApproved) =>
               /\ call.node # "act" /\ ~call.acted
               /\ call.executed_trades = <<>>
        /\ SentinelRaised => call.kill_switch_active /\ ~call.sentinel_result.set

C25_Witness ==
    /\ InWorkflow /\ call.node = "journal" /\ call.acted
    /\ SentinelApproved /\ ~call.kill_switch_active

\* the other side of the claim: a check that raised went to journal with the
\* fail-safe flag set
C25_RaisedGoesToJournal ==
    InWorkflow /\ call.node = "journal" /\ SentinelRaised /\ ~call.acted

\* C26: a trade the sentinel approved and the act node executed is in the
\* sentinel's trade_history once the act node is done.
C26_ExecutedTradeRecorded ==
    (InWorkflow /\ call.acted /\ SentinelApproved) =>
        \E i \in 1..Len(trade_history) :
            /\ trade_history[i].intent.price = call.user_intent.val.price
            /\ trade_history[i].status = "executed"

\* C27: with the kill switch enabled, check_trade returns approved = true
\* exactly when the final violation list is empty: without violations the
\* final risk score is at most 0.8, with or without escalation, so the score
\* rule (> 0.8) never blocks a check that has no violation.
C27_ApprovedIffNoViolation ==
    (Returned /\ constitution.enable_kill_switch) =>
        /\ call.approved <=> (call.violated_rules = <<>>)
        /\ (call.violated_rules = <<>>) => call.risk_score <= 8000

\* a check without violation at the largest score: three counted losses, a
\* market order and a position larger than the portfolio value the score uses
C27_Witness ==
    /\ Returned /\ constitution.enable_kill_switch
    /\ consecutive_losses >= 3
    /\ call.violated_rules = <<>> /\ call.risk_score = 8000
    /\ call.approved /\ call.recommended_action = "delay"

\* a check without violation that was escalated and stayed approved
C27_EscalatedStaysApproved ==
    /\ Returned /\ constitution.enable_kill_switch
    /\ call.llm_calls > 0 /\ call.violated_rules = <<>> /\ call.approved

\* C28: the two loss classifiers agree: every recorded execution with status
\* executed and a fill price is a loss for update_trade_history exactly when
\* it is a loss for the streak scan of _check_behavioral_guards, for buys and
\* sells, with or without an intent price.
C28_ClassifiersAgree ==
    \A i \in 1..Len(trade_history) :
        (trade_history[i].status = "executed"
            /\ Truthy(trade_history[i].actual_fill_price))
        => (UpdateIsLoss(trade_history[i]) <=> GuardIsLoss(trade_history[i]))

\* ---- lock-out under check-then-record use ----
\* the streak scan reports the stored history, whatever the time and the intent
StreakBlocked == CheckBehavioralGuards(constitution, trade_history) # <<>>

\* the time of the check lies after the cooldown window and the minimum
\* interval, inside trading hours and on a day without recorded trade
QuietTime(intent) ==
    /\ ~(cooldown_until.set /\ intent.timestamp < cooldown_until.val)
    /\ last_trade_time.set =>
          (intent.timestamp - last_trade_time.val) * 60
              >= constitution.min_time_between_trades
    /\ 9 <= HourOf(intent.timestamp) /\ HourOf(intent.timestamp) < 16
    /\ \A i \in 1..Len(trade_history) :
          DateOf(trade_history[i].execution_timestamp) < DateOf(intent.timestamp)

\* the trade is within the position and symbol limits
WithinLimits(intent, portfolio) ==
    /\ CheckPositionLimits(constitution, intent, portfolio) = <<>>
    /\ CheckAssetRestrictions(constitution, intent) = <<>>

\* C30: the gate never locks itself out for good: under check-then-record use
\* with the kill switch enabled, a trade within all position, hour and symbol
\* limits that is checked after the cooldown window and the minimum interval
\* have passed, on a new day, is approved (stated of the checks that return
\* and were not escalated).
C30_QuietCleanTradeApproved ==
    (/\ Returned /\ constitution.enable_kill_switch
     /\ call.llm_calls = 0
     /\ QuietTime(call.intent)
     /\ WithinLimits(call.intent, call.portfolio))
        => call.approved

\* once the streak scan reports the stored history, no later step of
\* check-then-record use changes the history or ends the report
C30_LockOutIsPermanent ==
    [][StreakBlocked => (StreakBlocked' /\ trade_history' = trade_history)]_vars

\* C29: an active cooldown is never shortened: while cooldown_until lies in
\* the future, no trigger_cooldown or update_trade_history call moves it to
\* an earlier instant.
C29_ActiveCooldownNeverShortened ==
    [][(cooldown_until.set /\ now < cooldown_until.val)
          => (cooldown_until'.set /\ cooldown_until'.val >= cooldown_until.val)]_vars

====
